---------------------------- MODULE Spec2Model ----------------------------
(***************************************************************************)
(* A model of badger-rs: the MANIFEST log (src/src/manifest.rs) and the    *)
(* lock-free skiplist memtable (src/src/skl/mod.rs).                       *)
(*                                                                         *)
(* The MANIFEST file is modelled byte for byte: the header, the record     *)
(* framing (big-endian length, CRC-32, payload) and the protobuf encoding  *)
(* of a ManifestChangeSet, so that a torn tail, an overwritten header or a *)
(* truncated file are states of the model and not assumptions.             *)
(***************************************************************************)
EXTENDS Integers, Sequences, FiniteSets, TLC

(***************************************************************************)
(* Bounds of the model.                                                    *)
(***************************************************************************)
MaxId == 2            \* table ids are 1..MaxId
MaxLevel == 1         \* levels carried by a change are 0..MaxLevel
MaxBatch == 2         \* changes in one add_changes batch
MaxRecords == 2       \* records found in MANIFEST at start plus add_changes calls
MaxOpens == 2         \* open calls in one behaviour
MaxRewrites == 1      \* direct rewrite calls in one behaviour

(***************************************************************************)
(* Program constants.                                                      *)
(***************************************************************************)
MANIFEST_DELETIONS_REWRITE_THRESHOLD == 10000
MANIFEST_DELETIONS_RATIO == 10
MAGIC_TEXT == <<98, 100, 103, 114>>      \* b"bdgr"
MAGIC_VERSION == 2

(***************************************************************************)
(* Bytes and the byteorder / protobuf / crc32fast helpers.                 *)
(***************************************************************************)
Byte == 0..255

Pow2(n) == 2 ^ n

\* WriteBytesExt::write_u32 / tokio write_u32: four bytes, big-endian.
U32BE(n) ==
  << (n \div 16777216) % 256, (n \div 65536) % 256, (n \div 256) % 256, n % 256 >>

\* ReadBytesExt::read_u32::<BigEndian> of four bytes, as a number.  A value
\* of 2^31 or more is read as 2^31 - 1: both are beyond the length of any
\* file here, and no such value is a version or a length that gets written.
FromU32BE(b) ==
  IF b[1] >= 128 THEN 2147483647
  ELSE ((b[1] * 256 + b[2]) * 256 + b[3]) * 256 + b[4]

\* A 32-bit word is the set of its set bit positions 0..31; the bit sets are
\* used once, to build the lookup tables below.
ByteBits(b) == { i \in 0..7 : (b \div Pow2(i)) % 2 = 1 }
Xor(a, b) == { i \in 0..31 : (i \in a) # (i \in b) }
Shr1(a) == { i \in 0..30 : (i + 1) \in a }
CRC_POLY == {5, 8, 9, 15, 19, 20, 21, 23, 24, 26, 27, 29, 30, 31}  \* 0xEDB88320

RECURSIVE CrcRounds(_, _)
CrcRounds(c, n) ==
  IF n = 0 THEN c
  ELSE CrcRounds(IF 0 \in c THEN Xor(Shr1(c), CRC_POLY) ELSE Shr1(c), n - 1)

RECURSIVE BitsValue(_, _, _)
BitsValue(w, lo, hi) ==
  IF lo > hi THEN 0
  ELSE (IF hi \in w THEN 1 ELSE 0) * Pow2(hi - lo) + BitsValue(w, lo, hi - 1)

\* A word as its four bytes, most significant first.
WordBytes(w) ==
  << BitsValue(w, 24, 31), BitsValue(w, 16, 23), BitsValue(w, 8, 15), BitsValue(w, 0, 7) >>

\* Exclusive or of two bytes, from the table of the sixteen by sixteen nibbles.
XorNibble == [ a \in 0..15 |-> [ b \in 0..15 |-> BitsValue(Xor(ByteBits(a), ByteBits(b)), 0, 3) ] ]
XorByte(a, b) == 16 * XorNibble[a \div 16][b \div 16] + XorNibble[a % 16][b % 16]

\* The CRC-32 (IEEE, reflected) table: entry n is n after eight rounds.
CrcTable == [ n \in Byte |-> WordBytes(CrcRounds(ByteBits(n), 8)) ]

\* One byte of input: c := CrcTable[(c ^ b) & 0xff] ^ (c >> 8).
CrcStep(c, b) ==
  LET t == CrcTable[XorByte(c[4], b)]
  IN  << t[1], XorByte(t[2], c[1]), XorByte(t[3], c[2]), XorByte(t[4], c[3]) >>

RECURSIVE CrcUpdate(_, _, _)
CrcUpdate(c, data, i) ==
  IF i > Len(data) THEN c ELSE CrcUpdate(CrcStep(c, data[i]), data, i + 1)

\* crc32fast::hash(data), as the four bytes write_u32 emits for it.
crc32_bytes(data) ==
  LET c == CrcUpdate(<<255, 255, 255, 255>>, data, 1)
  IN  << 255 - c[1], 255 - c[2], 255 - c[3], 255 - c[4] >>

\* protobuf base-128 varint.
RECURSIVE Varint(_)
Varint(n) == IF n < 128 THEN <<n>> ELSE <<128 + (n % 128)>> \o Varint(n \div 128)


(***************************************************************************)
(* The ChangeSet codec (protobuf, proto3):                                 *)
(*   ManifestChangeSet { repeated ManifestChange changes = 1; }            *)
(*   ManifestChange    { uint64 Id = 1; Operation Op = 2; uint32 Level = 3 }*)
(* A field holding its default value (0, CREATE) is not written.           *)
(***************************************************************************)
OpNumber(op) == IF op = "CREATE" THEN 0 ELSE 1
OpOfNumber(n) == IF n = 0 THEN "CREATE" ELSE IF n = 1 THEN "DELETE" ELSE "UNKNOWN"

\* ManifestChangeBuilder::new(id).with_op(op).with_level(level).build()
ManifestChange(id, op, level) == [Id |-> id, Op |-> op, Level |-> level]

EncodeChange(c) ==
     (IF c.Id # 0 THEN <<8>> \o Varint(c.Id) ELSE <<>>)
  \o (IF OpNumber(c.Op) # 0 THEN <<16>> \o Varint(OpNumber(c.Op)) ELSE <<>>)
  \o (IF c.Level # 0 THEN <<24>> \o Varint(c.Level) ELSE <<>>)

\* ManifestChangeSet::write_to_bytes
RECURSIVE write_to_bytes(_)
write_to_bytes(changes) ==
  IF changes = <<>> THEN <<>>
  ELSE LET e == EncodeChange(Head(changes))
       IN  <<10>> \o Varint(Len(e)) \o e \o write_to_bytes(Tail(changes))

\* Reading a varint at index i of b: [ok, val, next].  Varints longer than
\* four bytes do not occur in the files of this model and are refused.
RECURSIVE ReadVarint(_, _, _)
ReadVarint(b, i, n) ==
  IF i > Len(b) \/ n > 4 THEN [ok |-> FALSE, val |-> 0, next |-> i]
  ELSE IF b[i] < 128 THEN [ok |-> TRUE, val |-> b[i], next |-> i + 1]
  ELSE LET r == ReadVarint(b, i + 1, n + 1)
       IN  [ok |-> r.ok, val |-> (b[i] - 128) + 128 * r.val, next |-> r.next]

\* Skipping a field this schema does not know, by its wire type: the index
\* after it, or 0 when the bytes do not hold one.
SkipField(b, i, wt) ==
  IF wt = 0 THEN LET v == ReadVarint(b, i, 1) IN IF v.ok THEN v.next ELSE 0
  ELSE IF wt = 1 THEN IF i + 8 <= Len(b) + 1 THEN i + 8 ELSE 0
  ELSE IF wt = 5 THEN IF i + 4 <= Len(b) + 1 THEN i + 4 ELSE 0
  ELSE IF wt = 2
       THEN LET v == ReadVarint(b, i, 1)
            IN  IF v.ok /\ v.next + v.val <= Len(b) + 1 THEN v.next + v.val ELSE 0
  ELSE 0

\* ManifestChange::merge_from: [ok, c].
RECURSIVE ParseChange(_, _, _)
ParseChange(b, i, c) ==
  IF i > Len(b) THEN [ok |-> TRUE, c |-> c]
  ELSE LET t == ReadVarint(b, i, 1)
       IN  IF ~t.ok \/ t.val \div 8 = 0 THEN [ok |-> FALSE, c |-> c]
           ELSE IF t.val \in {8, 16, 24}
                THEN LET v == ReadVarint(b, t.next, 1)
                     IN  IF ~v.ok THEN [ok |-> FALSE, c |-> c]
                         ELSE ParseChange(b, v.next,
                                IF t.val = 8 THEN [c EXCEPT !.Id = v.val]
                                ELSE IF t.val = 16 THEN [c EXCEPT !.Op = OpOfNumber(v.val)]
                                ELSE [c EXCEPT !.Level = v.val])
                ELSE LET n == SkipField(b, t.next, t.val % 8)
                     IN  IF n = 0 THEN [ok |-> FALSE, c |-> c] ELSE ParseChange(b, n, c)

\* ManifestChangeSet::parse_from_bytes: [ok, changes].
RECURSIVE parse_from_bytes(_, _, _)
parse_from_bytes(b, i, acc) ==
  IF i > Len(b) THEN [ok |-> TRUE, changes |-> acc]
  ELSE LET t == ReadVarint(b, i, 1)
       IN  IF ~t.ok \/ t.val \div 8 = 0 THEN [ok |-> FALSE, changes |-> acc]
           ELSE IF t.val = 10
                THEN LET l == ReadVarint(b, t.next, 1)
                     IN  IF ~l.ok \/ l.next + l.val > Len(b) + 1
                         THEN [ok |-> FALSE, changes |-> acc]
                         ELSE LET m == ParseChange(SubSeq(b, l.next, l.next + l.val - 1), 1,
                                                   ManifestChange(0, "CREATE", 0))
                              IN  IF ~m.ok THEN [ok |-> FALSE, changes |-> acc]
                                  ELSE parse_from_bytes(b, l.next + l.val, Append(acc, m.c))
                ELSE LET n == SkipField(b, t.next, t.val % 8)
                     IN  IF n = 0 THEN [ok |-> FALSE, changes |-> acc]
                         ELSE parse_from_bytes(b, n, acc)

(***************************************************************************)
(* The in-memory Manifest: levels (a vector of LevelManifest, each a set   *)
(* of table ids), tables (id -> TableManifest.level, a u8), and the two    *)
(* counters.                                                               *)
(***************************************************************************)
Manifest_new == [levels |-> <<>>, tables |-> <<>>, creations |-> 0, deletions |-> 0]

\* for _ in build.levels.len()..=tc.Level { build.levels.push(default) }
PushLevels(levels, level) ==
  IF level + 1 > Len(levels)
  THEN levels \o [i \in 1..(level + 1 - Len(levels)) |-> {}]
  ELSE levels

\* HashMap::insert and HashMap::remove on tables.
MapInsert(f, k, v) == [x \in (DOMAIN f) \cup {k} |-> IF x = k THEN v ELSE f[x]]
MapRemove(f, k) == [x \in (DOMAIN f) \ {k} |-> f[x]]

\* tc.Level as u8
AsU8(n) == n % 256

\* A variant that grows the levels vector before it looks the id up.
apply_manifest_change_push_first(build, tc) ==
  IF tc.Op = "CREATE"
  THEN LET lv == PushLevels(build.levels, tc.Level + 1)
       IN  IF tc.Id \in DOMAIN build.tables
           THEN [st |-> "err", m |-> [build EXCEPT !.levels = lv]]
           ELSE [st |-> "ok",
                 m  |-> [levels    |-> [lv EXCEPT ![tc.Level + 1] = @ \cup {tc.Id}],
                         tables    |-> MapInsert(build.tables, tc.Id, AsU8(tc.Level)),
                         creations |-> build.creations + 1,
                         deletions |-> build.deletions]]
  ELSE IF tc.Id \notin DOMAIN build.tables
       THEN [st |-> "err", m |-> [build EXCEPT !.deletions = @ + 1]]
       ELSE LET removed == [build EXCEPT !.tables = MapRemove(@, tc.Id)]
            IN  IF tc.Level + 1 > Len(build.levels) \/ tc.Id \notin build.levels[tc.Level + 1]
                THEN [st |-> "panic", m |-> removed]
                ELSE [st |-> "ok",
                      m  |-> [removed EXCEPT !.levels[tc.Level + 1] = @ \ {tc.Id}]]

\* apply_manifest_change: [st, m], st one of "ok", "err" (an Err value is
\* returned) and "panic" (an unwrap or an assert fails); m is the Manifest
\* as the call leaves it.
apply_manifest_change(build, tc) ==
  IF tc.Op = "UNKNOWN" THEN [st |-> "panic", m |-> build]
  ELSE IF tc.Op = "CREATE"
  THEN IF tc.Id \in DOMAIN build.tables
       THEN [st |-> "err", m |-> build]
       ELSE LET lv == PushLevels(build.levels, tc.Level)
            IN  [st |-> "ok",
                 m  |-> [levels    |-> [lv EXCEPT ![tc.Level + 1] = @ \cup {tc.Id}],
                         tables    |-> MapInsert(build.tables, tc.Id, AsU8(tc.Level)),
                         creations |-> build.creations + 1,
                         deletions |-> build.deletions]]
  ELSE IF tc.Id \notin DOMAIN build.tables
       THEN [st |-> "err", m |-> build]
       ELSE LET removed == [build EXCEPT !.tables = MapRemove(@, tc.Id)]
            IN  IF tc.Level + 1 > Len(build.levels)
                THEN [st |-> "panic", m |-> removed]
                ELSE IF tc.Id \notin build.levels[tc.Level + 1]
                THEN [st |-> "panic", m |-> removed]
                ELSE [st |-> "ok",
                      m  |-> [removed EXCEPT !.levels[tc.Level + 1] = @ \ {tc.Id}]]

\* apply_manifest_change_set: the changes in order, stopping at the first
\* that does not return Ok.
RECURSIVE apply_manifest_change_set(_, _)
apply_manifest_change_set(build, changes) ==
  IF changes = <<>> THEN [st |-> "ok", m |-> build]
  ELSE LET r == apply_manifest_change(build, Head(changes))
       IN  IF r.st # "ok" THEN r ELSE apply_manifest_change_set(r.m, Tail(changes))

\* Manifest::as_changes: a CREATE per entry of tables, in the order the
\* HashMap iterates (order: a sequence holding every id once).
as_changes(m, order) ==
  [i \in 1..Len(order) |-> ManifestChange(order[i], "CREATE", m.tables[order[i]])]

(***************************************************************************)
(* The MANIFEST file.                                                      *)
(***************************************************************************)
\* wt.write_all(MAGIC_TEXT); wt.write_u32(MAGIC_VERSION)
Header == MAGIC_TEXT \o U32BE(MAGIC_VERSION)

\* One record: length, CRC-32 of the payload, payload.
Record(changes) ==
  LET mf_buffer == write_to_bytes(changes)
  IN  U32BE(Len(mf_buffer)) \o crc32_bytes(mf_buffer) \o mf_buffer

Zeros(n) == [i \in 1..n |-> 0]

\* File::write_all at position pos (bytes written so far: pos) of a file
\* opened without O_APPEND.
WriteAt(data, pos, bytes) ==
     (IF pos <= Len(data) THEN SubSeq(data, 1, pos) ELSE data \o Zeros(pos - Len(data)))
  \o bytes
  \o SubSeq(data, pos + Len(bytes) + 1, Len(data))

\* File::set_len
set_len(data, n) ==
  IF n <= Len(data) THEN SubSeq(data, 1, n) ELSE data \o Zeros(n - Len(data))

Min(a, b) == IF a < b THEN a ELSE b

\* The loop of replay_manifest_file, the file position at pos (bytes read so
\* far) and offset the end of the last applied record: [st, m, offset].
RECURSIVE ReplayLoop(_, _, _, _)

\* A loop that applies a record without comparing its CRC.
ReplayLoop_no_crc(data, pos, build, offset) ==
  IF Len(data) - pos < 8
  THEN [st |-> "ok", m |-> build, offset |-> offset]
  ELSE LET sz == FromU32BE(SubSeq(data, pos + 1, pos + 4))
           n == Min(sz, Len(data) - (pos + 8))
           buffer == SubSeq(data, pos + 9, pos + 8 + n) \o Zeros(sz - n)
           mf_set == parse_from_bytes(buffer, 1, <<>>)
       IN  IF n # sz THEN [st |-> "panic", m |-> build, offset |-> offset]
           ELSE IF ~mf_set.ok THEN [st |-> "err", m |-> build, offset |-> offset]
           ELSE LET r == apply_manifest_change_set(build, mf_set.changes)
                IN  IF r.st # "ok"
                    THEN [st |-> r.st, m |-> r.m, offset |-> offset]
                    ELSE ReplayLoop(data, pos + 8 + sz, r.m, offset + 8 + sz)

ReplayLoop(data, pos, build, offset) ==
  IF Len(data) - pos < 4                      \* is_eof(&sz)
  THEN [st |-> "ok", m |-> build, offset |-> offset]
  ELSE IF Len(data) - (pos + 4) < 4           \* is_eof(&crc32)
  THEN [st |-> "ok", m |-> build, offset |-> offset]
  ELSE LET sz == FromU32BE(SubSeq(data, pos + 1, pos + 4))
           crc32 == SubSeq(data, pos + 5, pos + 8)
           n == Min(sz, Len(data) - (pos + 8))   \* what fp.read returns
           buffer == SubSeq(data, pos + 9, pos + 8 + n) \o Zeros(sz - n)
       IN  IF n # sz                           \* assert_eq!(sz, fp.read(..)?)
           THEN [st |-> "panic", m |-> build, offset |-> offset]
           ELSE IF crc32 # crc32_bytes(buffer)
           THEN [st |-> "ok", m |-> build, offset |-> offset]
           ELSE LET mf_set == parse_from_bytes(buffer, 1, <<>>)
                IN  IF ~mf_set.ok
                    THEN [st |-> "err", m |-> build, offset |-> offset]
                    ELSE LET r == apply_manifest_change_set(build, mf_set.changes)
                         IN  IF r.st # "ok"
                             THEN [st |-> r.st, m |-> r.m, offset |-> offset]
                             ELSE ReplayLoop(data, pos + 8 + sz, r.m, offset + 8 + sz)

\* A replay that reads the version and does not compare it.
replay_manifest_file_any_version(data) ==
  IF Len(data) < 4 \/ SubSeq(data, 1, 4) # MAGIC_TEXT
  THEN [st |-> "err", m |-> Manifest_new, offset |-> 0]
  ELSE IF Len(data) < 8
  THEN [st |-> "err", m |-> Manifest_new, offset |-> 0]
  ELSE ReplayLoop(data, 8, Manifest_new, 8)

\* Manifest::replay_manifest_file
replay_manifest_file(data) ==
  IF Len(data) < 4 \/ SubSeq(data, 1, 4) # MAGIC_TEXT
  THEN [st |-> "err", m |-> Manifest_new, offset |-> 0]
  ELSE IF Len(data) < 8 \/ FromU32BE(SubSeq(data, 5, 8)) # MAGIC_VERSION
  THEN [st |-> "err", m |-> Manifest_new, offset |-> 0]
  ELSE ReplayLoop(data, 8, Manifest_new, 8)

(***************************************************************************)
(* ManifestFile.  A world w is [disk, mf]: disk is the directory's         *)
(* MANIFEST ([exists, data]) and mf the ManifestFile value ([fp,           *)
(* deletions_rewrite_threshold, manifest], fp = [open, pos]).  Each        *)
(* operation maps a world to [st, disk, mf, io], io the file system calls  *)
(* that change the directory, in the order the operation makes them.       *)
(***************************************************************************)
NoFp == [open |-> FALSE, pos |-> 0]

NoManifestFile ==
  [fp |-> NoFp, deletions_rewrite_threshold |-> 0, manifest |-> Manifest_new]

\* Manifest::help_rewrite and ManifestFile::help_rewrite: MANIFEST-REWRITE
\* is written (header and one record of as_changes) and synced, renamed
\* over MANIFEST, and MANIFEST is then opened again with truncate(true):
\* [data, fp, n, io], the file as the call leaves it, the new handle and
\* net_creations.  Only Manifest::help_rewrite calls sync_directory.
help_rewrite(m, order, sync_directory) ==
  LET rewritten == Header \o Record(as_changes(m, order))
      reopened == set_len(rewritten, 0)         \* .truncate(true).open(manifest_path)
  IN  [data |-> reopened, fp |-> [open |-> TRUE, pos |-> 0],
       n |-> Cardinality(DOMAIN m.tables),
       io |-> <<"create_rewrite", "write_rewrite", "sync_rewrite", "rename">>
              \o (IF sync_directory THEN <<"sync_dir">> ELSE <<>>)
              \o <<"truncate_manifest">>]

\* A rewrite that leaves the counters as they were.
rewrite_keep_counters(w, order) ==
  LET r == help_rewrite(w.mf.manifest, order, FALSE)
  IN  [st   |-> "ok",
       disk |-> [exists |-> TRUE, data |-> r.data],
       mf   |-> [w.mf EXCEPT !.fp = r.fp],
       io   |-> r.io]

\* ManifestFile::rewrite
rewrite(w, order) ==
  LET r == help_rewrite(w.mf.manifest, order, FALSE)
  IN  [st   |-> "ok",
       disk |-> [exists |-> TRUE, data |-> r.data],
       mf   |-> [w.mf EXCEPT !.fp = r.fp,
                             !.manifest.creations = r.n,
                             !.manifest.deletions = 0],
       io   |-> r.io]

\* The calls of help_rewrite on MANIFEST-REWRITE, each of which may return an
\* I/O error that help_rewrite hands on with ?.
RewriteCalls == <<"create_rewrite", "write_rewrite", "sync_rewrite", "rename">>

\* ManifestFile::rewrite when call number at of help_rewrite returns an
\* error: the handle was taken before help_rewrite was called, the error is
\* handed on, MANIFEST and the Manifest are as they were.  The calls made are
\* those before the failing one, followed by the mark of the error.
rewrite_io_error(w, at) ==
  [st   |-> "err",
   disk |-> w.disk,
   mf   |-> [w.mf EXCEPT !.fp = NoFp],
   io   |-> SubSeq(RewriteCalls, 1, at - 1) \o <<"io_error">>]

\* The test of add_changes for a rewrite.
NeedsRewrite(m, threshold) ==
  /\ m.deletions > threshold
  /\ m.deletions > MANIFEST_DELETIONS_RATIO * (m.creations - m.deletions)

\* A variant that appends the record before it applies the batch.
add_changes_write_first(w, changes, order) ==
  LET r == apply_manifest_change_set(w.mf.manifest, changes)
      buffer == Record(changes)
  IN  [st   |-> r.st,
       disk |-> [w.disk EXCEPT !.data = WriteAt(@, w.mf.fp.pos, buffer)],
       mf   |-> [w.mf EXCEPT !.manifest = r.m, !.fp.pos = @ + Len(buffer)],
       io   |-> <<"write_manifest", "sync_manifest">>]

\* ManifestFile::add_changes
add_changes(w, changes, order) ==
  LET r == apply_manifest_change_set(w.mf.manifest, changes)
      applied == [w.mf EXCEPT !.manifest = r.m]
  IN  IF r.st # "ok"
      THEN [st |-> r.st, disk |-> w.disk, mf |-> applied, io |-> <<>>]
      ELSE IF NeedsRewrite(r.m, w.mf.deletions_rewrite_threshold)
      THEN LET rw == rewrite([disk |-> w.disk, mf |-> applied], order)
           IN  [rw EXCEPT !.io = @ \o <<"sync_manifest">>]
      ELSE IF ~w.mf.fp.open                     \* self.fp.as_mut().unwrap()
      THEN [st |-> "panic", disk |-> w.disk, mf |-> applied, io |-> <<>>]
      ELSE LET buffer == Record(changes)
           IN  [st   |-> "ok",
                disk |-> [w.disk EXCEPT !.data = WriteAt(@, w.mf.fp.pos, buffer)],
                mf   |-> [applied EXCEPT !.fp.pos = @ + Len(buffer)],
                io   |-> <<"write_manifest", "sync_manifest">>]

\* ManifestFile::close
close(w) ==
  [st |-> "ok", disk |-> w.disk, mf |-> [w.mf EXCEPT !.fp = NoFp], io |-> <<>>]

\* help_open_or_create_manifest_file(dir, deletions_threshold)
help_open_or_create_manifest_file(disk, deletions_threshold) ==
  IF ~disk.exists
  THEN LET r == help_rewrite(Manifest_new, <<>>, TRUE)
       IN  [st   |-> "ok",
            disk |-> [exists |-> TRUE, data |-> r.data],
            mf   |-> [fp |-> r.fp,
                      deletions_rewrite_threshold |-> 0,     \* Default::default()
                      manifest |-> Manifest_new],
            io   |-> r.io]
  ELSE LET r == replay_manifest_file(disk.data)
       IN  IF r.st # "ok"
           THEN [st |-> r.st, disk |-> disk, mf |-> NoManifestFile, io |-> <<>>]
           ELSE [st   |-> "ok",
                 disk |-> [disk EXCEPT !.data = set_len(@, r.offset)],
                 mf   |-> [fp |-> [open |-> TRUE, pos |-> 0],     \* SeekFrom::Start(0)
                           deletions_rewrite_threshold |-> deletions_threshold,
                           manifest |-> r.m],
                 io   |-> <<"set_len_manifest">>]

\* open_or_create_manifest_file(dir)
open_or_create_manifest_file(disk) ==
  help_open_or_create_manifest_file(disk, MANIFEST_DELETIONS_REWRITE_THRESHOLD)

(***************************************************************************)
(* Inputs.                                                                 *)
(***************************************************************************)
Ids == 1..MaxId
Levels == 0..MaxLevel
Changes == { ManifestChange(id, op, lv) : id \in Ids, op \in {"CREATE", "DELETE"}, lv \in Levels }

SeqsUpTo(S, n) == UNION { [1..k -> S] : k \in 1..n }
Batches == SeqsUpTo(Changes, MaxBatch)

\* The orders in which a HashMap with the keys S may iterate.
Orders(S) == { o \in [1..Cardinality(S) -> S] : \A i, j \in 1..Cardinality(S) : o[i] = o[j] => i = j }

\* The thresholds handed to help_open_or_create_manifest_file.
Thresholds == {1, MANIFEST_DELETIONS_REWRITE_THRESHOLD}

RECURSIVE FileOf(_)
FileOf(batches) == IF batches = <<>> THEN Header ELSE FileOf(SubSeq(batches, 1, Len(batches) - 1)) \o Record(batches[Len(batches)])

RECURSIVE StateOf(_)
StateOf(batches) ==
  IF batches = <<>> THEN [st |-> "ok", m |-> Manifest_new]
  ELSE LET s == StateOf(SubSeq(batches, 1, Len(batches) - 1))
       IN  IF s.st # "ok" THEN s ELSE apply_manifest_change_set(s.m, batches[Len(batches)])

\* The MANIFEST files a directory may hold at start: written by a correct
\* writer from a valid sequence of batches, and then possibly torn, the last
\* cut bytes of the last record missing.
InitBatchSeqs ==
  { bs \in {<<>>} \cup SeqsUpTo(Batches, MaxRecords) : StateOf(bs).st = "ok" }

Origins ==
  { [kind |-> "empty", batches |-> <<>>, cut |-> 0] }
  \cup UNION { { [kind |-> "file", batches |-> bs, cut |-> k] :
                    k \in 0..(IF bs = <<>> THEN 0 ELSE Len(Record(bs[Len(bs)]))) } :
                bs \in InitBatchSeqs }

\* A record whose payload is the bytes p, with their length and CRC.
RawRecord(p) == U32BE(Len(p)) \o crc32_bytes(p) \o p

\* The file data with the byte at index at changed by the bit mask.
FlipByte(data, at, mask) == [data EXCEPT ![at] = XorByte(@, mask)]

FlipMasks == {1, 128}

\* Payloads that are no encoding of a ManifestChangeSet.
UndecodablePayloads ==
  { p \in {<<10>>, <<10, 2, 8>>, <<8>>, <<255>>} : ~parse_from_bytes(p, 1, <<>>).ok }

\* The MANIFEST files of a directory whose file was damaged after a correct
\* writer wrote it: one payload byte of record rec flipped ("flipped"); a
\* record rec appended whose length and CRC fit a payload that does not
\* decode ("undecodable"); a header byte flipped or the file cut inside the
\* header ("badheader").
FlippedOrigins ==
  UNION { UNION { { [kind |-> "flipped", batches |-> bs, cut |-> 0, rec |-> r,
                     data |-> FlipByte(FileOf(bs),
                                       Len(FileOf(SubSeq(bs, 1, r - 1))) + 8 + at, mask)] :
                      at \in 1..Len(write_to_bytes(bs[r])), mask \in FlipMasks } :
                  r \in 1..Len(bs) } :
          bs \in InitBatchSeqs }

UndecodableOrigins ==
  { [kind |-> "undecodable", batches |-> bs, cut |-> 0, rec |-> Len(bs) + 1,
     data |-> FileOf(bs) \o RawRecord(p)] :
      bs \in {b \in InitBatchSeqs : Len(b) < MaxRecords}, p \in UndecodablePayloads }

BadHeaderOrigins ==
  LET few == {b \in InitBatchSeqs : Len(b) <= 1 /\ \A j \in 1..Len(b) : Len(b[j]) = 1}
  IN  { [kind |-> "badheader", batches |-> bs, cut |-> 0, rec |-> 0,
         data |-> FlipByte(FileOf(bs), at, mask)] :
          bs \in few, at \in 1..8, mask \in FlipMasks }
      \cup { [kind |-> "badheader", batches |-> <<>>, cut |-> 0, rec |-> 0,
              data |-> SubSeq(Header, 1, k)] : k \in 0..7 }

DamagedOrigins == FlippedOrigins \cup UndecodableOrigins \cup BadHeaderOrigins

\* The state of the skiplist (its operations are defined further down).
VARIABLES
  nodes,    \* the arena
  height,   \* SkipList.height
  th,       \* the locals of each thread
  procs,    \* the threads
  visible,  \* per thread, the nodes whose initialisation happens-before its reads
  settled,  \* the nodes whose put has returned
  latest,   \* per key, the value of the last put that returned (0: none)
  calls,    \* per call so far, the key it puts (<<>>: the call is a get)
  ops,      \* calls started so far
  ref,      \* SkipList._ref
  arena,    \* the arena: [valid, resets], resets the calls of Arena::reset so far
  rc        \* per thread, the references it holds and its place in decr_ref

rvars == <<ref, arena, rc>>

svars == <<nodes, height, th, procs, visible, settled, latest, calls, ops, rvars>>

VARIABLES
  disk,     \* the directory: [exists, data], data the bytes of MANIFEST
  mf,       \* the ManifestFile the program holds
  last,     \* the last call: [op, arg, st, io]
  pre,      \* [disk, mf] when the last call began
  origin,   \* how the directory came to be before the program started
  adds,     \* add_changes calls so far
  opens,    \* open calls so far
  rewrites, \* direct rewrite calls so far
  failures  \* calls so far that did not return Ok

mvars == <<disk, mf, last, pre, origin, adds, opens, rewrites, failures>>

vars == <<mvars, svars>>

World == [disk |-> disk, mf |-> mf]

\* A program that uses only the skiplist: no directory, no ManifestFile.
NoManifest ==
  /\ origin = [kind |-> "empty", batches |-> <<>>, cut |-> 0]
  /\ disk = [exists |-> FALSE, data |-> <<>>]
  /\ mf = NoManifestFile
  /\ last = [op |-> "none", arg |-> <<>>, st |-> "ok", io |-> <<>>]
  /\ pre = [disk |-> disk, mf |-> mf]
  /\ adds = 0
  /\ opens = 0
  /\ rewrites = 0
  /\ failures = 0

\* A program that uses only the manifest: no skiplist, no thread.
NoSkipList ==
  /\ nodes = <<>>
  /\ height = 0
  /\ procs = {}
  /\ th = <<>>
  /\ visible = <<>>
  /\ settled = {}
  /\ latest = <<>>
  /\ calls = <<>>
  /\ ops = 0
  /\ ref = 0
  /\ arena = [valid |-> FALSE, resets |-> 0]
  /\ rc = <<>>

InitManifest ==
  /\ NoSkipList
  /\ origin \in Origins
  /\ disk = IF origin.kind = "empty"
            THEN [exists |-> FALSE, data |-> <<>>]
            ELSE [exists |-> TRUE,
                  data |-> LET f == FileOf(origin.batches)
                           IN  SubSeq(f, 1, Len(f) - origin.cut)]
  /\ mf = NoManifestFile
  /\ last = [op |-> "none", arg |-> <<>>, st |-> "ok", io |-> <<>>]
  /\ pre = [disk |-> disk, mf |-> mf]
  /\ adds = 0
  /\ opens = 0
  /\ rewrites = 0
  /\ failures = 0

\* The program starts in a directory whose MANIFEST was damaged.
InitDamaged ==
  /\ NoSkipList
  /\ origin \in DamagedOrigins
  /\ disk = [exists |-> TRUE, data |-> origin.data]
  /\ mf = NoManifestFile
  /\ last = [op |-> "none", arg |-> <<>>, st |-> "ok", io |-> <<>>]
  /\ pre = [disk |-> disk, mf |-> mf]
  /\ adds = 0
  /\ opens = 0
  /\ rewrites = 0
  /\ failures = 0

\* The outcome r of a call: a panic ends the process, and with it the handle.
Outcome(op, arg, r) ==
  /\ disk' = r.disk
  /\ mf' = IF r.st = "panic" THEN [r.mf EXCEPT !.fp = NoFp] ELSE r.mf
  /\ last' = [op |-> op, arg |-> arg, st |-> r.st, io |-> r.io]
  /\ pre' = World
  /\ failures' = IF r.st = "ok" THEN failures ELSE failures + 1
  /\ UNCHANGED <<origin, svars>>

Open ==
  /\ ~mf.fp.open
  /\ opens < MaxOpens
  /\ \E t \in Thresholds :
       Outcome("open", t, help_open_or_create_manifest_file(disk, t))
  /\ opens' = opens + 1
  /\ UNCHANGED <<adds, rewrites>>

AddChanges ==
  /\ mf.fp.open
  /\ Len(origin.batches) + adds < MaxRecords
  /\ \E changes \in Batches :
       LET m == apply_manifest_change_set(mf.manifest, changes)
       IN  \E order \in (IF m.st = "ok" /\ NeedsRewrite(m.m, mf.deletions_rewrite_threshold)
                         THEN Orders(DOMAIN m.m.tables) ELSE {<<>>}) :
             Outcome("add_changes", changes, add_changes(World, changes, order))
  /\ adds' = adds + 1
  /\ UNCHANGED <<opens, rewrites>>

Rewrite ==
  /\ mf.fp.open
  /\ rewrites < MaxRewrites
  /\ \E order \in Orders(DOMAIN mf.manifest.tables) :
       Outcome("rewrite", order, rewrite(World, order))
  /\ rewrites' = rewrites + 1
  /\ UNCHANGED <<adds, opens>>

Close ==
  /\ mf.fp.open
  /\ Outcome("close", <<>>, close(World))
  /\ UNCHANGED <<adds, opens, rewrites>>

NextManifest == Open \/ AddChanges \/ Rewrite \/ Close

SpecManifest == InitManifest /\ [][NextManifest]_vars

\* The same calls, on a directory whose MANIFEST was damaged.
SpecDamaged == InitDamaged /\ [][NextManifest]_vars

\* Levels over the whole width of the u32 field Level: those that fit a u8
\* and those that do not.
WideLevels == {0, 1, 255, 256, 257, 300}

\* Batches of one change that carries such a level.
WideBatches ==
  { <<ManifestChange(id, op, lv)>> : id \in Ids, op \in {"CREATE", "DELETE"}, lv \in WideLevels }

\* The program starts in an empty directory.
InitEmptyDir == InitManifest /\ origin.kind = "empty"

\* add_changes with a batch of WideBatches.
AddWideChanges ==
  /\ mf.fp.open
  /\ adds < MaxRecords
  /\ \E changes \in WideBatches :
       LET m == apply_manifest_change_set(mf.manifest, changes)
       IN  \E order \in (IF m.st = "ok" /\ NeedsRewrite(m.m, mf.deletions_rewrite_threshold)
                         THEN Orders(DOMAIN m.m.tables) ELSE {<<>>}) :
             Outcome("add_changes", changes, add_changes(World, changes, order))
  /\ adds' = adds + 1
  /\ UNCHANGED <<opens, rewrites>>

\* A call of rewrite during which a call on MANIFEST-REWRITE fails.
RewriteIoError ==
  /\ mf.fp.open
  /\ rewrites < MaxRewrites
  /\ \E at \in 1..Len(RewriteCalls) :
       Outcome("rewrite", <<>>, rewrite_io_error(World, at))
  /\ rewrites' = rewrites + 1
  /\ UNCHANGED <<adds, opens>>

NextIoError == NextManifest \/ RewriteIoError

\* The calls of a program in whose directory a rewrite may fail.
SpecIoError == InitEmptyDir /\ [][NextIoError]_vars

NextWide == Open \/ AddWideChanges \/ Rewrite \/ Close

\* The calls of a program whose changes carry levels of any width.
SpecWide == InitEmptyDir /\ [][NextWide]_vars

(***************************************************************************)
(* The skiplist.  A node is [key, value, height, tower]; nodes is the      *)
(* arena, node n at index n, the head sentinel first.  The value slot      *)
(* holds the value itself (0: never stored).  Each load, store and CAS of  *)
(* an atomic is one step of the thread that makes it.                      *)
(***************************************************************************)
MAX_HEIGHT == 20
MaxKey == 3           \* keys are the one-byte strings <<1>> .. <<MaxKey>>
MaxNodeHeight == 3    \* random_height draws from 1..MaxNodeHeight
MaxOps == 3           \* put and get calls in one behaviour
NThreads == 2         \* threads of the concurrent specification

NULL == 0             \* arena offset 0: no node
HEAD == 1             \* the head sentinel, the arena's first allocation

Keys == { <<b>> : b \in 1..MaxKey }
\* Each put writes a value of its own: the number of the call.
Vals == 1..MaxOps

\* <[u8] as Ord>::cmp: lexicographic over the bytes.
RECURSIVE cmp(_, _)
cmp(a, b) ==
  IF a = <<>> THEN (IF b = <<>> THEN "Equal" ELSE "Less")
  ELSE IF b = <<>> THEN "Greater"
  ELSE IF Head(a) < Head(b) THEN "Less"
  ELSE IF Head(a) > Head(b) THEN "Greater"
  ELSE cmp(Tail(a), Tail(b))

NullTower == [i \in 0..(MAX_HEIGHT - 1) |-> NULL]
NullArr == [i \in 0..MAX_HEIGHT |-> NULL]

\* Node::new(arena, key, v, height)
Node_new(key, v, h) == [key |-> key, value |-> v, height |-> h, tower |-> NullTower]

NoRet == [node |-> NULL, found |-> FALSE, value |-> 0]

\* The locals of a thread between calls.
Idle ==
  [pc |-> "idle", op |-> "none", key |-> <<>>, v |-> 0, list_height |-> 0,
   prev |-> NullArr, next |-> NullArr, h |-> 0, x |-> NULL, i |-> 0,
   before |-> NULL, site |-> "none", less |-> FALSE, allow_equal |-> FALSE,
   known |-> 0,   \* get: the value of the last put of the key that had returned at the call
   ret |-> NoRet]

\* A step's outcome: the shared state and the thread's locals after it.
Out(ns, ht, l) == [nodes |-> ns, height |-> ht, l |-> l]

\* A call that ended keeps what it was called with and what it gave back; its
\* other locals are gone.
Ended(l, pc, ret) ==
  [Idle EXCEPT !.pc = pc, !.op = l.op, !.key = l.key, !.v = l.v, !.x = l.x,
               !.less = l.less, !.allow_equal = l.allow_equal,
               !.known = l.known, !.ret = ret]

Panic(l) == Ended(l, "panic", NoRet)
Return(l, ret) == Ended(l, "idle", ret)

\* The top of the loop of _put for level i (lines 385-399).
EnterLevel(l, i) ==
  IF i >= l.h THEN Return(l, NoRet)
  ELSE IF l.prev[i] = NULL
  THEN IF ~(i > 1) THEN Panic(l)                  \* assert!(i > 1)
       ELSE [l EXCEPT !.i = i, !.site = "from_head", !.before = HEAD, !.pc = "put_splice"]
  ELSE [l EXCEPT !.i = i, !.pc = "put_cas"]

\* What _put does with the (outBefore, outAfter) find_splice_for_level
\* returned, at each of its three call sites; nx = NULL is None.
SpliceReturn(l, outBefore, nx) ==
  IF l.site = "descent"                           \* lines 351-359
  THEN IF nx # NULL /\ outBefore = nx
       THEN IF l.prev[l.i] = NULL                 \* prev[i].as_ref().unwrap()
            THEN Panic(l)
            ELSE [l EXCEPT !.x = l.prev[l.i], !.pc = "put_set_value"]
       ELSE LET l1 == [l EXCEPT !.prev[l.i] = outBefore,
                                !.next[l.i] = IF nx # NULL THEN nx ELSE @]
            IN  IF l.i = 0 THEN [l1 EXCEPT !.pc = "put_new"]
                ELSE [l1 EXCEPT !.i = l.i - 1, !.before = outBefore]
  ELSE IF l.site = "from_head"                    \* lines 392-398
  THEN IF nx = NULL THEN Panic([l EXCEPT !.prev[l.i] = outBefore])     \* _next.unwrap()
       ELSE IF outBefore = nx THEN Panic(l)             \* assert!(!ptr::eq(prev[i], next[i]))
       ELSE [l EXCEPT !.prev[l.i] = outBefore, !.next[l.i] = nx, !.pc = "put_cas"]
  ELSE                                            \* lines 415-424
       IF nx = NULL THEN Panic([l EXCEPT !.prev[l.i] = outBefore])     \* _next.unwrap()
       ELSE IF outBefore = nx
       THEN IF l.i # 0 THEN Panic(l)              \* assert_eq!(i, 0, ..)
            ELSE [l EXCEPT !.prev[l.i] = outBefore, !.next[l.i] = nx, !.x = outBefore,
                           !.pc = "put_set_value"]
       ELSE [l EXCEPT !.prev[l.i] = outBefore, !.next[l.i] = nx, !.pc = "put_cas"]

\* find_splice_for_level that stops at the first node, whatever its key.
find_splice_for_level_no_advance(key, before, nxt, k) ==
  IF nxt = NULL THEN [done |-> TRUE, pre |-> before, nx |-> NULL, before |-> before]
  ELSE IF cmp(key, k) = "Equal"
  THEN [done |-> TRUE, pre |-> nxt, nx |-> nxt, before |-> before]
  ELSE [done |-> TRUE, pre |-> before, nx |-> nxt, before |-> before]

\* One turn of the loop of find_splice_for_level(key, before, level): nxt is
\* what get_next(before, level) loaded and k the key read from that node.
\* [done, pre, nx, before].
find_splice_for_level(key, before, nxt, k) ==
  IF nxt = NULL THEN [done |-> TRUE, pre |-> before, nx |-> NULL, before |-> before]
  ELSE IF cmp(key, k) = "Equal"
  THEN [done |-> TRUE, pre |-> nxt, nx |-> nxt, before |-> before]
  ELSE IF cmp(key, k) = "Less"
  THEN [done |-> TRUE, pre |-> before, nx |-> nxt, before |-> before]
  ELSE [done |-> FALSE, pre |-> NULL, nx |-> NULL, before |-> nxt]

\* A find_near that returns the node with the equal key where the code goes
\* on to its successor.
find_near_equal_is_next(l, nxt, k) ==
  LET none == Return(l, NoRet)
      some(n, f) == Return(l, [node |-> n, found |-> f, value |-> 0])
      x == l.before
  IN  IF nxt = NULL
      THEN IF l.i > 0 THEN [l EXCEPT !.i = l.i - 1]
           ELSE IF ~l.less THEN none
           ELSE IF x = HEAD THEN none
           ELSE some(x, FALSE)
      ELSE IF cmp(l.key, k) = "Greater" THEN [l EXCEPT !.before = nxt]
      ELSE IF cmp(l.key, k) = "Equal"
      THEN IF l.allow_equal THEN some(nxt, TRUE)
           ELSE IF ~l.less THEN some(nxt, FALSE)
           ELSE IF l.i > 0 THEN [l EXCEPT !.i = l.i - 1]
           ELSE IF x = HEAD THEN none
           ELSE some(x, FALSE)
      ELSE IF l.i > 0 THEN [l EXCEPT !.i = l.i - 1]
           ELSE IF ~l.less THEN some(nxt, FALSE)
           ELSE IF x = HEAD THEN none
           ELSE some(x, FALSE)

\* One turn of the loop of find_near(key, less, allow_equal), x at l.before
\* and level at l.i: the locals after it.
find_near(l, nxt, k) ==
  LET none == Return(l, NoRet)
      some(n, f) == Return(l, [node |-> n, found |-> f, value |-> 0])
      x == l.before
  IN  IF nxt = NULL
      THEN IF l.i > 0 THEN [l EXCEPT !.i = l.i - 1]
           ELSE IF ~l.less THEN none
           ELSE IF x = HEAD THEN none
           ELSE some(x, FALSE)
      ELSE IF cmp(l.key, k) = "Greater" THEN [l EXCEPT !.before = nxt]
      ELSE IF cmp(l.key, k) = "Equal"
      THEN IF l.allow_equal THEN some(nxt, TRUE)
           ELSE IF ~l.less THEN [l EXCEPT !.before = nxt, !.pc = "near_succ"]
           ELSE IF l.i > 0 THEN [l EXCEPT !.i = l.i - 1]
           ELSE IF x = HEAD THEN none
           ELSE some(x, FALSE)
      ELSE IF l.i > 0 THEN [l EXCEPT !.i = l.i - 1]
           ELSE IF ~l.less THEN some(nxt, FALSE)
           ELSE IF x = HEAD THEN none
           ELSE some(x, FALSE)

\* What a find_near that returned hands to its caller: get reads the value
\* slot of a node found, any other caller has its answer.
AfterNear(l) ==
  IF l.pc = "idle" /\ l.op = "get" /\ l.ret.found THEN [l EXCEPT !.pc = "get_value"] ELSE l

\* The loop of random_height, h the height so far and draws how many of the
\* coming random::<u32>() are at most HEIGHT_INCREASE.
RECURSIVE random_height_loop(_, _)
random_height_loop(h, draws) ==
  IF h < MAX_HEIGHT /\ draws > 0 THEN random_height_loop(h + 1, draws - 1) ELSE h

\* SkipList::random_height
random_height(draws) == random_height_loop(1, draws)

\* The heights drawn in the model.
RandomHeights == { random_height(d) : d \in 0..(MaxNodeHeight - 1) }

\* A height that is stored without the comparison with list_height.
cas_height_store(ns, ht, l) == Out(ns, l.h, EnterLevel(l, 0))

\* self.height.compare_and_swap(list_height, height, SeqCst) and the test of
\* what it returned (lines 369-378).
cas_height(ns, ht, l) ==
  IF ht = l.list_height
  THEN Out(ns, l.h, EnterLevel(l, 0))
  ELSE Out(ns, ht, [l EXCEPT !.pc = "put_load_height2"])

\* The keys thread t may read from node n: the key, and for a node whose
\* initialisation does not happen-before the read (a data race on the plain
\* fields key_offset and key_size), also the zeroed fields: the empty key.
KeysRead(vis, ns, n) == IF n \in vis THEN {ns[n].key} ELSE {ns[n].key, <<>>}

\* The outcomes of the next step of a thread with locals l.
StepOutcomes(ns, ht, l, vis) ==
  CASE l.pc = "put_load_height" ->                \* lines 343-348
         { Out(ns, ht, [l EXCEPT !.list_height = ht,
                                 !.prev = [NullArr EXCEPT ![ht] = HEAD],
                                 !.next = NullArr,
                                 !.i = ht - 1, !.before = HEAD,
                                 !.site = "descent", !.pc = "put_splice"]) }
    [] l.pc = "put_splice" ->
         LET nxt == ns[l.before].tower[l.i]
         IN  { LET r == find_splice_for_level(l.key, l.before, nxt, k)
               IN  Out(ns, ht, IF r.done THEN SpliceReturn(l, r.pre, r.nx)
                               ELSE [l EXCEPT !.before = r.before])
               : k \in (IF nxt = NULL THEN {<<>>} ELSE KeysRead(vis, ns, nxt)) }
    [] l.pc = "put_set_value" ->                  \* Node::set_value
         { Out([ns EXCEPT ![l.x].value = l.v], ht, Return(l, NoRet)) }
    [] l.pc = "put_new" ->                        \* lines 363-367
         { LET l1 == [l EXCEPT !.h = h, !.x = Len(ns) + 1, !.list_height = ht]
           IN  Out(Append(ns, Node_new(l.key, l.v, h)), ht,
                   IF h > ht THEN [l1 EXCEPT !.pc = "put_cas_height"]
                   ELSE EnterLevel(l1, 0))
           : h \in RandomHeights }
    [] l.pc = "put_load_height2" ->               \* line 377
         { Out(ns, ht, IF l.h > ht THEN [l EXCEPT !.list_height = ht, !.pc = "put_cas_height"]
                       ELSE EnterLevel([l EXCEPT !.list_height = ht], 0)) }
    [] l.pc = "put_cas_height" ->                 \* lines 369-378
         { cas_height(ns, ht, l) }
    [] l.pc = "put_cas" ->                        \* lines 401-416
         LET stored == [ns EXCEPT ![l.x].tower[l.i] = l.next[l.i]]
         IN  { IF stored[l.prev[l.i]].tower[l.i] = l.next[l.i]
               THEN Out([stored EXCEPT ![l.prev[l.i]].tower[l.i] = l.x], ht,
                        EnterLevel(l, l.i + 1))
               ELSE Out(stored, ht,
                        [l EXCEPT !.site = "retry", !.before = l.prev[l.i],
                                  !.pc = "put_splice"]) }
    [] l.pc = "near_load_height" ->               \* lines 225-226
         { Out(ns, ht, [l EXCEPT !.before = HEAD, !.i = ht - 1, !.pc = "near_step"]) }
    [] l.pc = "near_step" ->
         LET nxt == ns[l.before].tower[l.i]
         IN  { Out(ns, ht, AfterNear(find_near(l, nxt, k)))
               : k \in (IF nxt = NULL THEN {<<>>} ELSE KeysRead(vis, ns, nxt)) }
    [] l.pc = "near_succ" ->                      \* line 262: get_next(next, 0)
         { Out(ns, ht, Return(l, [node |-> ns[l.before].tower[0], found |-> FALSE,
                                  value |-> 0])) }
    [] l.pc = "get_value" ->                      \* lines 462-463
         { Out(ns, ht, Return(l, [l.ret EXCEPT !.value = ns[l.ret.node].value])) }
    [] OTHER -> {}

\* The references a thread holds: plain the references it took with incr_ref
\* (the owner's, from SkipList::new, is one of thread 1), cursors the cursors
\* it has to close; pc, op and old are its place in a decr_ref under way.
NoRefs == [plain |-> 0, cursors |-> 0, pc |-> "idle", op |-> "none", old |-> 0]
Owner == [NoRefs EXCEPT !.plain = 1]

\* SkipList::new
InitSkl(threads) ==
  /\ NoManifest
  /\ nodes = << Node_new(<<>>, 0, MAX_HEIGHT) >>
  /\ height = 1
  /\ procs = threads
  /\ th = [t \in threads |-> Idle]
  /\ visible = [t \in threads |-> {HEAD}]
  /\ settled = {HEAD}
  /\ latest = [k \in Keys |-> 0]
  /\ calls = <<>>
  /\ ops = 0
  /\ ref = 1                                       \* _ref: AtomicI32::from(1)
  /\ arena = [valid |-> TRUE, resets |-> 0]
  /\ rc = [t \in threads |-> IF t = 1 THEN Owner ELSE NoRefs]

\* The threads run the same code: the one that makes the first call is
\* numbered 1.
FirstCall(t) == ops = 0 => t = 1

\* A thread calls put(key, v).
StartPut(t) ==
  /\ t \in procs
  /\ FirstCall(t)
  /\ th[t].pc = "idle"
  /\ ops < MaxOps
  /\ \E key \in Keys :
       /\ th' = [th EXCEPT ![t] = [Idle EXCEPT !.op = "put", !.key = key, !.v = ops + 1,
                                               !.pc = "put_load_height"]]
       /\ calls' = Append(calls, key)
  /\ visible' = [visible EXCEPT ![t] = @ \cup settled]
  /\ ops' = ops + 1
  /\ UNCHANGED <<nodes, height, procs, settled, latest, rvars, mvars>>

\* A thread calls get(key): find_near(key, false, true).
StartGet(t) ==
  /\ t \in procs
  /\ FirstCall(t)
  /\ th[t].pc = "idle"
  /\ ops < MaxOps
  /\ \E key \in Keys :
       th' = [th EXCEPT ![t] = [Idle EXCEPT !.op = "get", !.key = key,
                                            !.less = FALSE, !.allow_equal = TRUE,
                                            !.known = latest[key],
                                            !.pc = "near_load_height"]]
  /\ calls' = Append(calls, <<>>)
  /\ visible' = [visible EXCEPT ![t] = @ \cup settled]
  /\ ops' = ops + 1
  /\ UNCHANGED <<nodes, height, procs, settled, latest, rvars, mvars>>

\* A thread takes the next step of its call.
Step(t) ==
  /\ t \in procs
  /\ th[t].pc \notin {"idle", "panic"}
  /\ \E r \in StepOutcomes(nodes, height, th[t], visible[t]) :
       /\ nodes' = r.nodes
       /\ height' = r.height
       /\ th' = [th EXCEPT ![t] = r.l]
       /\ visible' = [visible EXCEPT ![t] = @ \cup (1..Len(r.nodes) \ 1..Len(nodes))]
       /\ IF r.l.pc = "idle" /\ r.l.op = "put"
          THEN /\ latest' = [latest EXCEPT ![r.l.key] = r.l.v]
               /\ settled' = settled \cup {r.l.x}
          ELSE UNCHANGED <<latest, settled>>
  /\ UNCHANGED <<procs, calls, ops, rvars, mvars>>

NextSkl == \E t \in 1..NThreads : StartPut(t) \/ StartGet(t) \/ Step(t)

\* One thread: the calls run one after the other.
SpecSkl == InitSkl({1}) /\ [][NextSkl]_vars

\* Several threads, their steps interleaved.
SpecSklConc == InitSkl(1..NThreads) /\ [][NextSkl]_vars

\* A thread calls find_near(key, less, allow_equal).
StartNear(t) ==
  /\ t \in procs
  /\ th[t].pc = "idle"
  /\ \E key \in Keys, less \in BOOLEAN, allow_equal \in BOOLEAN :
       th' = [th EXCEPT ![t] = [Idle EXCEPT !.op = "find_near", !.key = key,
                                            !.less = less, !.allow_equal = allow_equal,
                                            !.pc = "near_load_height"]]
  /\ visible' = [visible EXCEPT ![t] = @ \cup settled]
  /\ UNCHANGED <<nodes, height, procs, settled, latest, calls, ops, rvars, mvars>>

NextNear == \E t \in 1..NThreads : StartPut(t) \/ StartNear(t) \/ Step(t)

\* One thread that puts and searches: every search finds the list at rest.
SpecNear == InitSkl({1}) /\ [][NextNear]_vars

(***************************************************************************)
(* The reference count.  incr_ref and new_cursor add one to _ref; decr_ref *)
(* and the close of a cursor take one from it, and the call that took the  *)
(* count from 1 or less goes on to Arena::reset.  The fetch_sub and the    *)
(* reset are two steps of the thread.  A reference is taken only while the *)
(* count is above zero (no use of the list is permitted after that), and   *)
(* released only by a thread that holds one.                               *)
(***************************************************************************)
MaxRef == 3           \* references counted at one time

listvars == <<nodes, height, th, procs, visible, settled, latest, calls, ops>>

\* A decr_ref that resets the arena only when the count was below 1.
decr_ref_keep_last(r) == [ref |-> r - 1, reset |-> ~(r > 0)]

\* SkipList::decr_ref on a count of r: the count it leaves and whether it
\* goes on to self.arena.reset().
decr_ref(r) == [ref |-> r - 1, reset |-> ~(r > 1)]

\* SkipList::incr_ref, the reference to be released by thread u.
IncrRef(t) ==
  /\ t \in procs /\ rc[t].pc = "idle"
  /\ ref >= 1 /\ ref < MaxRef
  /\ ref' = ref + 1
  /\ \E u \in procs : rc' = [rc EXCEPT ![u].plain = @ + 1]
  /\ UNCHANGED <<arena, listvars, mvars>>

\* SkipList::new_cursor, the cursor to be closed by thread u.
NewCursor(t) ==
  /\ t \in procs /\ rc[t].pc = "idle"
  /\ ref >= 1 /\ ref < MaxRef
  /\ ref' = ref + 1
  /\ \E u \in procs : rc' = [rc EXCEPT ![u].cursors = @ + 1]
  /\ UNCHANGED <<arena, listvars, mvars>>

\* The fetch_sub of a decr_ref called as op, and the test of what it returned.
Release(t, op) ==
  LET r == decr_ref(ref)
  IN  /\ ref' = r.ref
      /\ rc' = [rc EXCEPT ![t].pc = IF r.reset THEN "reset" ELSE "idle",
                          ![t].op = op, ![t].old = ref,
                          ![t].plain = IF op = "decr_ref" THEN @ - 1 ELSE @,
                          ![t].cursors = IF op = "close" THEN @ - 1 ELSE @]
      /\ UNCHANGED <<arena, listvars, mvars>>

\* SkipList::decr_ref, up to its return or its call of reset.
DecrRef(t) ==
  /\ t \in procs /\ rc[t].pc = "idle" /\ rc[t].plain >= 1
  /\ Release(t, "decr_ref")

\* Cursor::close: the decr_ref of the cursor's list.
CursorClose(t) ==
  /\ t \in procs /\ rc[t].pc = "idle" /\ rc[t].cursors >= 1
  /\ Release(t, "close")

\* self.arena.reset(), the last step of a decr_ref.
ArenaReset(t) ==
  /\ t \in procs /\ rc[t].pc = "reset"
  /\ arena' = [valid |-> FALSE, resets |-> arena.resets + 1]
  /\ rc' = [rc EXCEPT ![t].pc = "idle"]
  /\ UNCHANGED <<ref, listvars, mvars>>

NextRef ==
  \E t \in 1..NThreads :
    IncrRef(t) \/ NewCursor(t) \/ DecrRef(t) \/ CursorClose(t) \/ ArenaReset(t)

\* The owner and the holders of cursors, on two threads.
SpecRef == InitSkl(1..NThreads) /\ [][NextRef]_vars

(***************************************************************************)
(* Claims about the MANIFEST, checked under SpecManifest.                  *)
(***************************************************************************)
\* The state a call to add_changes had reached when it came to change j of
\* its batch.
BeforeChange(j) == apply_manifest_change_set(pre.mf.manifest, SubSeq(last.arg, 1, j - 1))

SameTables(m1, m2) == m1.tables = m2.tables /\ m1.levels = m2.levels

\* C1: batches of CREATE/DELETE that never violate table-id uniqueness are
\* written to a freshly created manifest; after close, the reopen succeeds
\* and replays the id->level map and the level sets held before the close.
C1_ReopenReplaysState ==
  (origin.kind = "empty" /\ rewrites = 0 /\ opens = 2 /\ last.op = "open"
     /\ failures <= (IF last.st = "ok" THEN 0 ELSE 1))
    => (last.st = "ok" /\ SameTables(mf.manifest, pre.mf.manifest))

\* C2: a valid MANIFEST whose last record lost its last K bytes (1 <= K <=
\* length of that record) is opened without panic or error, the state is the
\* one before that record, and the file is cut to the end of the record
\* before it.
C2_TornTailRecovered ==
  (origin.kind = "file" /\ origin.cut >= 1 /\ opens = 1 /\ last.op = "open")
    => LET kept == SubSeq(origin.batches, 1, Len(origin.batches) - 1)
       IN  /\ last.st = "ok"
           /\ SameTables(mf.manifest, StateOf(kept).m)
           /\ disk.data = FileOf(kept)

\* C8: a CREATE whose id is in the id->level map, or a DELETE whose id is
\* not, returns an error and leaves the map, the level sets and both
\* counters as they were before that change.
C8_RejectedChangeLeavesState ==
  last.op = "add_changes" =>
    \A j \in 1..Len(last.arg) :
      LET before == BeforeChange(j)
          c == last.arg[j]
      IN  (/\ before.st = "ok"
           /\ \/ c.Op = "CREATE" /\ c.Id \in DOMAIN before.m.tables
              \/ c.Op = "DELETE" /\ c.Id \notin DOMAIN before.m.tables)
          => (last.st = "err" /\ mf.manifest = before.m)

C8_Witness ==
  /\ last.op = "add_changes" /\ last.st = "err" /\ Len(last.arg) = 2
  /\ last.arg[2].Op = "CREATE" /\ last.arg[2].Id \in DOMAIN BeforeChange(2).m.tables
  /\ mf.manifest.levels # <<>>

\* C9: a DELETE(id, level) of an id that is live at another level is
\* reported as an error value, without a panic, and the table stays live at
\* its level.
C9_WrongLevelDeleteIsAnError ==
  last.op = "add_changes" =>
    \A j \in 1..Len(last.arg) :
      LET before == BeforeChange(j)
          c == last.arg[j]
      IN  (/\ before.st = "ok"
           /\ c.Op = "DELETE"
           /\ c.Id \in DOMAIN before.m.tables
           /\ before.m.tables[c.Id] # c.Level)
          => (/\ last.st = "err"
              /\ c.Id \in DOMAIN mf.manifest.tables
              /\ mf.manifest.tables[c.Id] = before.m.tables[c.Id])

\* C10: when applying the batch fails inside add_changes, no byte is
\* written: MANIFEST keeps its contents and length, and the call makes no
\* append and no rewrite.
C10_RejectedBatchWritesNothing ==
  (last.op = "add_changes" /\ apply_manifest_change_set(pre.mf.manifest, last.arg).st # "ok")
    => (/\ last.st # "ok"
        /\ disk = pre.disk
        /\ last.io = <<>>
        /\ last.st = "err" => mf.fp = pre.mf.fp)

C10_Witness ==
  /\ last.op = "add_changes" /\ last.st = "err"
  /\ pre.disk.data # <<>> /\ disk = pre.disk
  /\ mf.manifest # pre.mf.manifest


\* The DELETE changes of a batch.
Deletes(changes) == Cardinality({j \in 1..Len(changes) : changes[j].Op = "DELETE"})

LiveTables(m) == Cardinality(DOMAIN m.tables)

\* The directory calls of a rewrite appear in io.
Rewrote(io) == \E a \in 1..Len(io) : io[a] = "rename"

\* C11: a successful add_changes whose batch alone applies more DELETEs than
\* the rewrite threshold and than 10 times the live tables it leaves (so that
\* the DELETEs since the last rewrite exceed both) performs a rewrite and not
\* an append, and leaves creations = live tables and deletions = 0.
C11_DeletionsTriggerRewrite ==
  (/\ last.op = "add_changes" /\ last.st = "ok"
   /\ Deletes(last.arg) > pre.mf.deletions_rewrite_threshold
   /\ Deletes(last.arg) > MANIFEST_DELETIONS_RATIO * LiveTables(mf.manifest))
    => /\ Rewrote(last.io)
       /\ mf.manifest.creations = LiveTables(mf.manifest)
       /\ mf.manifest.deletions = 0

\* C12: the MANIFEST a completed rewrite leaves on disk (reached from rewrite
\* or from the open of a missing file) replays to the id->level map and the
\* level sets that were snapshotted.
C12_RewrittenFileReplays ==
  (last.st = "ok" /\ Rewrote(last.io))
    => LET r == replay_manifest_file(disk.data)
       IN  r.st = "ok" /\ SameTables(r.m, mf.manifest)

\* C13: the first add_changes after the open of an existing MANIFEST puts
\* its record right after the last valid record: the bytes the open left are
\* a prefix of the file, the record follows them, and a replay of the file
\* gives the state the ManifestFile holds.
C13_AppendAfterOpen ==
  (/\ origin.kind = "file" /\ opens = 1 /\ adds = 1 /\ rewrites = 0
   /\ last.op = "add_changes" /\ last.st = "ok")
    => /\ disk.data = pre.disk.data \o Record(last.arg)
       /\ SubSeq(disk.data, 1, 8) = Header
       /\ LET r == replay_manifest_file(disk.data)
          IN  r.st = "ok" /\ SameTables(r.m, mf.manifest)

\* The place of a directory call in io (0: not made).
Place(io, call) ==
  IF \E a \in 1..Len(io) : io[a] = call
  THEN CHOOSE a \in 1..Len(io) : io[a] = call
  ELSE 0

\* C14: a call that rewrites and returns Ok has synced the content of
\* MANIFEST-REWRITE, then renamed it over MANIFEST, then synced the
\* directory.
C14_RewriteSyncOrder ==
  (last.st = "ok" /\ Rewrote(last.io))
    => /\ 0 < Place(last.io, "sync_rewrite")
       /\ Place(last.io, "sync_rewrite") < Place(last.io, "rename")
       /\ Place(last.io, "rename") < Place(last.io, "sync_dir")

\* C18: as long as every call has returned Ok, creations - deletions is the
\* number of live tables.
C18_CountersMatchLiveTables ==
  failures = 0
    => mf.manifest.creations - mf.manifest.deletions = LiveTables(mf.manifest)

\* C19: every id of the id->level map is in the level set of its mapped
\* level and in no other, and no level set holds an id the map lacks,
\* whatever changes were applied or refused.
C19_LevelSetsMatchMap ==
  LET m == mf.manifest
  IN  /\ \A id \in DOMAIN m.tables :
           /\ m.tables[id] + 1 <= Len(m.levels)
           /\ \A lv \in 1..Len(m.levels) : (id \in m.levels[lv]) <=> (lv = m.tables[id] + 1)
      /\ \A lv \in 1..Len(m.levels) : m.levels[lv] \subseteq DOMAIN m.tables

\* C20: a rewrite that returns Ok leaves deletions = 0 and creations = the
\* number of live tables, and the id->level map and the level sets as they
\* were before it.
C20_RewriteResetsCounters ==
  (last.op = "rewrite" /\ last.st = "ok")
    => /\ mf.manifest.deletions = 0
       /\ mf.manifest.creations = LiveTables(mf.manifest)
       /\ SameTables(mf.manifest, pre.mf.manifest)

\* A rewrite of a manifest with a live table whose creations counted more
\* than the live tables.
C20_Witness ==
  /\ last.op = "rewrite" /\ last.st = "ok"
  /\ LiveTables(pre.mf.manifest) >= 1
  /\ pre.mf.manifest.creations > LiveTables(pre.mf.manifest)
  /\ mf.manifest.creations = LiveTables(mf.manifest)

\* The records of origin that precede its damaged record.
GoodPrefix == SubSeq(origin.batches, 1, origin.rec - 1)

FirstOpen == opens = 1 /\ last.op = "open"

\* C15: when one payload byte of a record is flipped, the open succeeds with
\* the state of the records before it, no later record is applied, and the
\* file is cut at the end of the record before it.
C15_CrcMismatchStopsReplay ==
  (origin.kind = "flipped" /\ FirstOpen)
    => /\ last.st = "ok"
       /\ mf.manifest = StateOf(GoodPrefix).m
       /\ disk.data = FileOf(GoodPrefix)

\* The flipped record is followed by a further record, which stays unapplied.
C15_Witness ==
  /\ origin.kind = "flipped" /\ FirstOpen /\ last.st = "ok"
  /\ origin.rec = 1 /\ Len(origin.batches) = 2
  /\ disk.data = Header
  /\ Len(pre.disk.data) > Len(Header)

\* C16: when a record with a fitting length and CRC holds a payload that
\* does not decode, the open succeeds with the state of the records before
\* it and the file is cut at the end of the record before it.
C16_UndecodableStopsReplay ==
  (origin.kind = "undecodable" /\ FirstOpen)
    => /\ last.st = "ok"
       /\ mf.manifest = StateOf(GoodPrefix).m
       /\ disk.data = FileOf(GoodPrefix)

\* C17: the open of a MANIFEST whose first 8 bytes are not the magic and
\* version 2 returns an error, hands out no ManifestFile, and makes no call
\* that changes the file.
C17_BadHeaderFailsOpen ==
  (origin.kind = "badheader" /\ FirstOpen)
    => /\ last.st = "err"
       /\ ~mf.fp.open
       /\ disk = pre.disk
       /\ last.io = <<>>

\* A file with the right magic, a wrong version and a record behind it.
C17_Witness ==
  /\ origin.kind = "badheader" /\ FirstOpen /\ last.st = "err"
  /\ Len(disk.data) > 8
  /\ SubSeq(disk.data, 1, 4) = MAGIC_TEXT

(***************************************************************************)
(* Claims about the skiplist.                                              *)
(***************************************************************************)

\* The puts of key k called so far.
NPuts(k) == Cardinality({c \in 1..Len(calls) : calls[c] = k})

\* The nodes of the level-0 chain, from the head's successor on.
RECURSIVE Walk(_, _)
Walk(n, fuel) ==
  IF n = NULL \/ fuel = 0 THEN <<>>
  ELSE <<n>> \o Walk(nodes[n].tower[0], fuel - 1)

Level0 == Walk(nodes[HEAD].tower[0], Len(nodes))

Level0Sorted ==
  \A a \in 1..(Len(Level0) - 1) :
    cmp(nodes[Level0[a]].key, nodes[Level0[a + 1]].key) = "Less"

Level0Keys == { nodes[Level0[a]].key : a \in 1..Len(Level0) }

AllReturned == \A t \in procs : th[t].pc = "idle"

\* C3: a put of a key not put before returns, whatever height was drawn for
\* its node, and a get of the same thread that follows a returned put(k, v)
\* finds k with the value v.
C3_GetAfterPut ==
  \A t \in procs :
    /\ (th[t].op = "put" /\ NPuts(th[t].key) = 1) => th[t].pc # "panic"
    /\ (th[t].op = "get" /\ th[t].pc = "idle" /\ th[t].known # 0)
         => (th[t].ret.found /\ th[t].ret.value = th[t].known)

\* C4: a put of a key that is present returns, no second node is made for
\* the key, the node's value slot holds the new value, and a get that follows
\* returns the new value.
C4_OverwriteCompletes ==
  \A t \in procs :
    /\ (th[t].op = "put" /\ NPuts(th[t].key) >= 2) => th[t].pc # "panic"
    /\ (th[t].op = "put" /\ NPuts(th[t].key) >= 2 /\ th[t].pc = "idle")
         => /\ Cardinality({n \in 1..Len(nodes) : nodes[n].key = th[t].key}) = 1
            /\ \A n \in 1..Len(nodes) : nodes[n].key = th[t].key => nodes[n].value = th[t].v
    /\ (th[t].op = "get" /\ th[t].pc = "idle" /\ NPuts(th[t].key) >= 2)
         => (th[t].ret.found /\ th[t].ret.value = th[t].known)

\* C5: once puts of distinct keys have returned, in whatever order they were
\* called, the level-0 chain from the head holds exactly the keys put, each
\* once, in strictly increasing byte order, each node with the value put for
\* its key.
C5_Level0SortedAndComplete ==
  (AllReturned /\ \A k \in Keys : NPuts(k) <= 1)
    => /\ Level0Sorted
       /\ Level0Keys = {k \in Keys : NPuts(k) = 1}
       /\ Len(Level0) = Cardinality({k \in Keys : NPuts(k) = 1})
       /\ \A a \in 1..Len(Level0) :
            nodes[Level0[a]].value = latest[nodes[Level0[a]].key]

\* Three keys put in an order that is not their byte order, one of them with
\* a tower of more than one level, all puts returned.
C5_Witness ==
  /\ AllReturned
  /\ \A k \in Keys : NPuts(k) <= 1
  /\ Len(Level0) >= 3
  /\ \E a \in 1..(Len(Level0) - 1) : Level0[a] > Level0[a + 1]
  /\ \E n \in 2..Len(nodes) : nodes[n].height > 1

\* C6: threads that put pairwise different keys all return, under every
\* interleaving of their loads and CAS steps, and the level-0 chain then holds
\* exactly the keys put, each once, in sorted order.  Stated for the nodes of
\* height 1, which link at level 0 only.
C6_DisjointPutsComplete ==
  (/\ \A k \in Keys : NPuts(k) <= 1
   /\ \A n \in 2..Len(nodes) : nodes[n].height = 1)
    => /\ \A t \in procs : th[t].pc # "panic"
       /\ AllReturned
            => /\ Level0Sorted
               /\ Level0Keys = {k \in Keys : NPuts(k) = 1}
               /\ Len(Level0) = Cardinality({k \in Keys : NPuts(k) = 1})

\* C7: a get that runs while other threads put returns none or a value some
\* put wrote for its key, and a get called after a put of its key returned
\* finds the key.
C7_ConcurrentGet ==
  \A t \in procs :
    (th[t].op = "get" /\ th[t].pc = "idle")
      => /\ th[t].ret.found
              => \E c \in 1..Len(calls) : calls[c] = th[t].key /\ th[t].ret.value = c
         /\ th[t].known # 0 => th[t].ret.found

(***************************************************************************)
(* Claims about the reference count, checked under SpecRef.                *)
(***************************************************************************)
RECURSIVE HeldUpTo(_)
HeldUpTo(n) == IF n = 0 THEN 0 ELSE rc[n].plain + rc[n].cursors + HeldUpTo(n - 1)

\* The references held: the owner's, those taken by incr_ref, the open cursors.
Held == HeldUpTo(NThreads)

\* Thread t has returned from a decr_ref or a close that found the count at n.
ReleasedAt(t, n) == rc[t].pc = "idle" /\ rc[t].op # "none" /\ rc[t].old = n

\* C21: the count is the number of references held; while the owner or an
\* open cursor holds one the arena is valid; only a decr_ref that took the
\* count from 1 to 0 calls reset, and once it has returned the arena is reset;
\* the arena is reset once.
C21_ResetAtLastRelease ==
  /\ ref = Held
  /\ Held >= 1 => arena.valid
  /\ \A t \in procs : rc[t].pc = "reset" => (rc[t].old = 1 /\ ref = 0)
  /\ ~arena.valid <=> \E t \in procs : ReleasedAt(t, 1)
  /\ arena.resets <= 1

\* The owner released its reference while a cursor was open, and the arena
\* stayed valid until another thread closed the cursor.
C21_Witness ==
  /\ ~arena.valid
  /\ \E t, u \in procs :
       /\ t # u
       /\ rc[t].op = "close" /\ ReleasedAt(t, 1)
       /\ rc[u].op = "decr_ref" /\ rc[u].old > 1

(***************************************************************************)
(* Further claims about the skiplist.                                      *)
(***************************************************************************)
\* C22: in every state, between the steps of concurrent puts too, a tower
\* entry at level L of a node N (the head included) that is not null refers
\* to a node of the arena whose key is greater than N's and whose height is
\* above L.
C22_TowerOrder ==
  \A n \in 1..Len(nodes) : \A L \in 0..(MAX_HEIGHT - 1) :
    LET m == nodes[n].tower[L]
    IN  m # NULL => /\ m \in 1..Len(nodes)
                    /\ cmp(nodes[n].key, nodes[m].key) = "Less"
                    /\ nodes[m].height > L

MaxDraws == 25        \* random values in a row that are at most HEIGHT_INCREASE

\* A put that drew height h for its node is past its loop on the list height.
PastHeightLoop(t) ==
  /\ th[t].op = "put" /\ th[t].h >= 1
  /\ th[t].pc \notin {"put_cas_height", "put_load_height2"}

\* Whatever the random values, random_height returns a height of 1..20.
DrawnHeightsInBounds == \A d \in 0..MaxDraws : random_height(d) \in 1..MAX_HEIGHT

HeightInBounds ==
  /\ height >= 1 /\ height <= MAX_HEIGHT
  /\ \A t \in procs : PastHeightLoop(t) => height >= th[t].h
  /\ \A n \in 1..Len(nodes) : \A L \in 0..(MAX_HEIGHT - 1) :
       nodes[n].tower[L] # NULL => L < height

\* C23: under every interleaving of concurrent puts the list height starts at
\* 1, never decreases and never exceeds 20; a put that drew height h and has
\* left its loop on the list height finds the list height at h or more, and no
\* node is linked at a level at or above the list height.
C23_HeightMonotone ==
  /\ height = 1 /\ DrawnHeightsInBounds
  /\ []HeightInBounds
  /\ [][height' >= height]_vars

\* A put that drew height 2 when the list height was 1 is past its loop, the
\* list height raised to 3 by the put of another thread.
C23_Witness ==
  \E t \in procs :
    /\ th[t].pc = "put_cas" /\ th[t].h = 2
    /\ th[t].prev[1] = HEAD /\ th[t].prev[2] = NULL
    /\ th[t].list_height = 3 /\ height = 3

\* Node target is on the chain of level L that starts at node n.
RECURSIVE OnLevel(_, _, _, _)
OnLevel(n, L, target, fuel) ==
  IF n = NULL \/ fuel = 0 THEN FALSE
  ELSE IF n = target THEN TRUE
  ELSE OnLevel(nodes[n].tower[L], L, target, fuel - 1)

\* The call of thread t was a put that made node x for a key not put before,
\* with a height above the list height it found: above the height of every
\* node made before it.
TallPut(t, x) ==
  /\ th[t].op = "put" /\ th[t].pc \in {"idle", "panic"}
  /\ NPuts(th[t].key) = 1
  /\ x = th[t].x /\ x = Len(nodes) /\ x # HEAD
  /\ nodes[x].height > 1
  /\ \A n \in 2..(x - 1) : nodes[n].height < nodes[x].height

\* C24: a put of a new key whose node height h is above the list height read
\* at the start of the call returns normally with the node linked at every
\* level below h: the node is on the chain from the head at each of them.
C24_TallPutLinksEveryLevel ==
  \A t \in procs : \A x \in 2..Len(nodes) :
    TallPut(t, x)
      => /\ th[t].pc = "idle"
         /\ \A L \in 0..(nodes[x].height - 1) :
              OnLevel(nodes[HEAD].tower[L], L, x, Len(nodes))

\* The nodes with key k on the level-0 chain from the head.
LinkedWithKey(k) ==
  { n \in 2..Len(nodes) : nodes[n].key = k /\ OnLevel(nodes[HEAD].tower[0], 0, n, Len(nodes)) }

\* Thread t re-runs its splice after a failed CAS at a level above 0 and the
\* node it comes to may be read with the key t inserts: the next step fails
\* assert_eq!(i, 0, "Equality can happen only on base level").
EqualAboveBase(t) ==
  /\ th[t].pc = "put_splice" /\ th[t].site = "retry" /\ th[t].i > 0
  /\ LET nxt == nodes[th[t].before].tower[th[t].i]
     IN  nxt # NULL /\ th[t].key \in KeysRead(visible[t], nodes, nxt)

\* C25: under every interleaving of concurrent puts, puts of one key
\* included, the splice re-run after a failed CAS finds a key equal to the
\* one inserted only at level 0; the put then holds the competing node, about
\* to overwrite its value and return, and that node is the one linked node of
\* the key.
C25_EqualOnlyAtBase ==
  \A t \in procs :
    /\ ~EqualAboveBase(t)
    /\ (th[t].pc = "put_set_value" /\ th[t].site = "retry")
         => /\ th[t].i = 0
            /\ nodes[th[t].x].key = th[t].key
            /\ LinkedWithKey(th[t].key) = {th[t].x}

\* The nodes of the level-0 chain that find_near(k, less, allow_equal) is to
\* choose from.
NearCandidates(k, less, allow_equal) ==
  { n \in { Level0[a] : a \in 1..Len(Level0) } :
      \/ cmp(nodes[n].key, k) = (IF less THEN "Less" ELSE "Greater")
      \/ allow_equal /\ nodes[n].key = k }

\* C26: on a list at rest, find_near(k, less, allow_equal) returns, with
\* less, the rightmost node with a key below k (or equal to k, with
\* allow_equal) and, without less, the leftmost node with a key above k (or
\* equal to k, with allow_equal); none when there is no such node; never the
\* head; and its boolean is true exactly when the node returned has the key k.
C26_FindNearAnswers ==
  \A t \in procs :
    (th[t].op = "find_near" /\ th[t].pc = "idle")
      => LET r == th[t].ret
             k == th[t].key
             C == NearCandidates(k, th[t].less, th[t].allow_equal)
         IN  /\ r.node # HEAD
             /\ C = {} => r.node = NULL
             /\ C # {} =>
                  /\ r.node \in C
                  /\ \A n \in C :
                       cmp(nodes[n].key, nodes[r.node].key)
                         \in {"Equal", IF th[t].less THEN "Less" ELSE "Greater"}
             /\ r.found <=> (r.node # NULL /\ nodes[r.node].key = k)

\* A search for the node above a key that is on a list of two levels, which
\* returns the successor of the node with the key.
C26_Witness ==
  \E t \in procs :
    /\ th[t].op = "find_near" /\ th[t].pc = "idle"
    /\ ~th[t].less /\ ~th[t].allow_equal
    /\ th[t].key \in Level0Keys
    /\ th[t].ret.node # NULL /\ ~th[t].ret.found
    /\ height >= 2

(***************************************************************************)
(* Further claims about the MANIFEST.                                      *)
(***************************************************************************)
\* C27: when a change after the first of a batch fails validation in
\* add_changes, the changes before it are not left applied: the id->level
\* map, the level sets and both counters are as they were before the call.
C27_RejectedBatchRolledBack ==
  (/\ last.op = "add_changes" /\ last.st = "err"
   /\ \E j \in 2..Len(last.arg) :
        /\ BeforeChange(j).st = "ok"
        /\ apply_manifest_change(BeforeChange(j).m, last.arg[j]).st = "err")
    => mf.manifest = pre.mf.manifest

\* C28: the ManifestFile that help_open_or_create_manifest_file(dir, t)
\* returns has the rewrite threshold t, when MANIFEST was created by the call
\* and when it was replayed.
C28_ThresholdInEffect ==
  (last.op = "open" /\ last.st = "ok")
    => mf.deletions_rewrite_threshold = last.arg

\* C29: for a CREATE with any level a u32 holds, the level the id->level map
\* records for the table, the index of the level set that holds the id, and
\* the level the snapshot emits for it are the level the change carried.
C29_LevelKeptAtFullWidth ==
  (last.op = "add_changes" /\ last.st = "ok" /\ last.arg[1].Op = "CREATE")
    => LET c == last.arg[1]
           m == mf.manifest
       IN  /\ c.Id \in DOMAIN m.tables
           /\ m.tables[c.Id] = c.Level
           /\ Len(m.levels) >= c.Level + 1 /\ c.Id \in m.levels[c.Level + 1]
           /\ \A order \in Orders(DOMAIN m.tables) :
                \A a \in 1..Len(order) :
                  order[a] = c.Id => as_changes(m, order)[a].Level = c.Level

\* A call that ran a rewrite, from add_changes or directly, during which a
\* call on MANIFEST-REWRITE returned an I/O error.
RewriteFailed ==
  /\ last.op \in {"add_changes", "rewrite"}
  /\ Len(last.io) > 0
  /\ last.io[Len(last.io)] = "io_error"

====
